---- MODULE Spec2Model ----
(***************************************************************************)
(* ECGAnalyzer (Frontend/assets/js/ecg-analyzer.js): the beat detector,    *)
(* the animation clock and the upload / reset lifecycle of the session.    *)
(*                                                                         *)
(* Units.  Times (currentAnimationTime, animationStep) are integers in     *)
(* 1/360 s, so that length / samplingRate is exact for every sampling rate *)
(* that divides 360; windowSizeSeconds is in whole seconds (parseInt).     *)
(* Amplitudes are integers in 0.01 mV.  Array indices are the 0-based      *)
(* indices of the source; At(a, i) reads a[i].                             *)
(***************************************************************************)
EXTENDS Integers, Sequences, FiniteSets, TLC

VARIABLES
    ecgData,                \* this.ecgData: [loaded, leads]
    samplingRate,           \* this.samplingRate
    prqsPoints,             \* this.prqsPoints: [P, Q, R, S, T]
    windowSizeSeconds,      \* this.windowSizeSeconds
    isAnimating,            \* this.isAnimating
    animationId,            \* this.animationId (0 is null)
    currentAnimationTime,   \* this.currentAnimationTime
    animationSpeed,         \* this.animationSpeed
    animationStep,          \* this.animationStep
    frames,                 \* callbacks requestAnimationFrame holds, by handle
    uploads,                \* upload requests awaiting their response, oldest first
    sliderMax,              \* max attribute of the timeline slider, in seconds
    currentMode,            \* this.currentMode
    selectedLeads,          \* this.selectedLeads
    xorChunkSize,           \* this.xorChunkSize
    xorChunks,              \* this.xorChunks
    xorDisplayMode,         \* this.xorDisplayMode
    polarMode,              \* this.polarMode
    polarLead,              \* this.polarLead
    polarWindowSize,        \* value of the polarWindowSize input (1000 when absent)
    recurrenceLeadX,        \* this.recurrenceLeadX
    recurrenceLeadY,        \* this.recurrenceLeadY
    recurrenceMode,         \* this.recurrenceMode
    recurrenceColormap,     \* this.recurrenceColormap
    mainChart,              \* what Plotly holds for the mainChart element
    stats,                  \* text of the heartRate, rrInterval and totalBeats elements
    lastOp,                 \* the handler that ran last: [op, wasPlaying, message, thrown]
    halted                  \* a stop or a seek was applied and play was not called since

vars == <<ecgData, samplingRate, prqsPoints, windowSizeSeconds, isAnimating,
          animationId, currentAnimationTime, animationSpeed, animationStep,
          frames, uploads, sliderMax, currentMode, selectedLeads, xorChunkSize,
          xorChunks, xorDisplayMode, polarMode, polarLead, polarWindowSize,
          recurrenceLeadX, recurrenceLeadY, recurrenceMode, recurrenceColormap,
          mainChart, stats, lastOp, halted>>

(***************************************************************************)
(* Bounds of the model.                                                    *)
(***************************************************************************)
MaxLen == 7          \* longest enumerated lead of the detector's inputs
MaxFrames == 2       \* most callbacks the frame queue may hold
MaxUploads == 1      \* most upload requests in flight
MaxStack == 3        \* deepest nesting of calls before the engine throws RangeError

(***************************************************************************)
(* Arithmetic helpers.                                                     *)
(***************************************************************************)
Seconds(n) == 360 * n
Tenths(n) == 36 * n
Min(a, b) == IF a < b THEN a ELSE b
Max(a, b) == IF a > b THEN a ELSE b
At(a, i) == a[i + 1]
SeqOf(S, n) == UNION {[1..k -> S] : k \in 0..n}
Abs(x) == IF x < 0 THEN -x ELSE x
\* the % of the source: the remainder takes the sign of the dividend
Rem(a, b) == IF a >= 0 THEN a % b ELSE -((-a) % b)
\* Math.round(num / den) for den > 0: halves round up
Round(num, den) == (2 * num + den) \div (2 * den)

\* a.slice(from, to): a negative bound counts from the end, both are clipped to the array
Slice(a, from, to) ==
    LET n == Len(a)
        lo == IF from < 0 THEN Max(n + from, 0) ELSE Min(from, n)
        hi == IF to < 0 THEN Max(n + to, 0) ELSE Min(to, n)
    IN  IF lo >= hi THEN <<>> ELSE [k \in 1..(hi - lo) |-> a[lo + k]]

RECURSIVE SumNum(_)
\* reduce((a, b) => a + b, 0) over intervals that share their denominator
SumNum(q) == IF Len(q) = 0 THEN 0 ELSE q[1][1] + SumNum(Tail(q))

(***************************************************************************)
(* The session object.                                                     *)
(***************************************************************************)
NoData == [loaded |-> FALSE, leads |-> <<>>]
NoPoints == [P |-> <<>>, Q |-> <<>>, R |-> <<>>, S |-> <<>>, T |-> <<>>]
\* this.selectedLeads of the constructor: the twelve lead indices
AllLeads == [k \in 1..12 |-> k - 1]

This ==
    [ecgData |-> ecgData, samplingRate |-> samplingRate, prqsPoints |-> prqsPoints,
     windowSizeSeconds |-> windowSizeSeconds, isAnimating |-> isAnimating,
     animationId |-> animationId, currentAnimationTime |-> currentAnimationTime,
     animationSpeed |-> animationSpeed, animationStep |-> animationStep,
     frames |-> frames, uploads |-> uploads,
     sliderMax |-> sliderMax, currentMode |-> currentMode,
     selectedLeads |-> selectedLeads, xorChunkSize |-> xorChunkSize,
     xorChunks |-> xorChunks, xorDisplayMode |-> xorDisplayMode,
     polarMode |-> polarMode, polarLead |-> polarLead,
     polarWindowSize |-> polarWindowSize, recurrenceLeadX |-> recurrenceLeadX,
     recurrenceLeadY |-> recurrenceLeadY, recurrenceMode |-> recurrenceMode,
     recurrenceColormap |-> recurrenceColormap, mainChart |-> mainChart, stats |-> stats,
     message |-> "none", thrown |-> "none"]

Commit(s) ==
    /\ ecgData' = s.ecgData
    /\ samplingRate' = s.samplingRate
    /\ prqsPoints' = s.prqsPoints
    /\ windowSizeSeconds' = s.windowSizeSeconds
    /\ isAnimating' = s.isAnimating
    /\ animationId' = s.animationId
    /\ currentAnimationTime' = s.currentAnimationTime
    /\ animationSpeed' = s.animationSpeed
    /\ animationStep' = s.animationStep
    /\ frames' = s.frames
    /\ uploads' = s.uploads
    /\ sliderMax' = s.sliderMax
    /\ currentMode' = s.currentMode
    /\ selectedLeads' = s.selectedLeads
    /\ xorChunkSize' = s.xorChunkSize
    /\ xorChunks' = s.xorChunks
    /\ xorDisplayMode' = s.xorDisplayMode
    /\ polarMode' = s.polarMode
    /\ polarLead' = s.polarLead
    /\ polarWindowSize' = s.polarWindowSize
    /\ recurrenceLeadX' = s.recurrenceLeadX
    /\ recurrenceLeadY' = s.recurrenceLeadY
    /\ recurrenceMode' = s.recurrenceMode
    /\ recurrenceColormap' = s.recurrenceColormap
    /\ mainChart' = s.mainChart
    /\ stats' = s.stats

\* what lastOp records of a handler that ended in s: its name, whether it found the
\* controller Playing, the type of the message it showed and the error it let escape
Op(name, s) ==
    [op |-> name, wasPlaying |-> isAnimating, message |-> s.message, thrown |-> s.thrown]

\* showMessage(message, type): the toast of the handler in progress
showMessage(s, type) == [s EXCEPT !.message = type]

\* an error raised in the handler in progress; the statements after it do not run
Throw(s, error) == [s EXCEPT !.thrown = error]

HasLeads(s) == s.ecgData.loaded
HasLead0(s) == s.ecgData.loaded /\ Len(s.ecgData.leads) >= 1
\* this.ecgData.leads[idx] is an array
HasLead(s, idx) == idx >= 0 /\ idx < Len(s.ecgData.leads)
\* this.selectedLeads[0] || 0
FirstSelected(s) == IF Len(s.selectedLeads) = 0 THEN 0 ELSE s.selectedLeads[1]

\* maxTime = leads[0].length / samplingRate, in 1/360 s
MaxTime(s) == (Seconds(1) * Len(s.ecgData.leads[1])) \div s.samplingRate

(***************************************************************************)
(* BeatDetector: detectQRSComplexes.                                       *)
(***************************************************************************)
threshold == 50

Refractory(rate) == (2 * rate) \div 10

Mark(lead, i, rate) ==
    [index |-> i, amplitude |-> At(lead, i), time |-> <<i, rate>>]

IsPeakAtThreshold(lead, i) ==
    /\ At(lead, i) > At(lead, i - 1)
    /\ At(lead, i) > At(lead, i + 1)
    /\ At(lead, i) >= threshold

IsPeak(lead, i) ==
    /\ At(lead, i) > At(lead, i - 1)
    /\ At(lead, i) > At(lead, i + 1)
    /\ At(lead, i) > threshold

RECURSIVE ScanNoSkip(_, _, _, _)
ScanNoSkip(lead, i, rate, acc) ==
    IF i >= Len(lead) - 1 THEN acc
    ELSE IF IsPeak(lead, i)
         THEN ScanNoSkip(lead, i + 1, rate, Append(acc, Mark(lead, i, rate)))
         ELSE ScanNoSkip(lead, i + 1, rate, acc)

RECURSIVE Scan(_, _, _, _)
Scan(lead, i, rate, acc) ==
    IF i >= Len(lead) - 1 THEN acc
    ELSE IF IsPeak(lead, i)
         THEN Scan(lead, i + Refractory(rate) + 1, rate, Append(acc, Mark(lead, i, rate)))
         ELSE Scan(lead, i + 1, rate, acc)

\* leads[1] || leads[0]: an array, even an empty one, is truthy
ReferenceLead(leads) == IF Len(leads) >= 2 THEN leads[2] ELSE leads[1]

detectQRSComplexes(s) ==
    IF ~HasLeads(s) \/ Len(s.ecgData.leads) = 0 THEN s
    ELSE [s EXCEPT !.prqsPoints.R =
              Scan(ReferenceLead(s.ecgData.leads), 1, s.samplingRate, <<>>)]

(***************************************************************************)
(* Statistics: calculateRRIntervals, updateStats, updateStatsAnimated.     *)
(* An interval is the pair <<samples, samplingRate>>, the exact quotient.  *)
(* A statistics element holds Blank ('--') or the number it shows.         *)
(***************************************************************************)
Blank == 0 - 1

NoStats == [heartRate |-> Blank, rrInterval |-> Blank, totalBeats |-> Blank]

\* the loop over consecutive marks
Intervals(marks, rate) ==
    [i \in 1..(Len(marks) - 1) |-> <<marks[i + 1].index - marks[i].index, rate>>]

calculateRRIntervalsFromOrigin(s) ==
    IF ~HasLeads(s) \/ Len(s.prqsPoints.R) < 2 THEN <<>>
    ELSE [i \in 1..(Len(s.prqsPoints.R) - 1) |->
             <<s.prqsPoints.R[i + 1].index, s.samplingRate>>]

calculateRRIntervals(s) ==
    IF ~HasLeads(s) \/ Len(s.prqsPoints.R) < 2 THEN <<>>
    ELSE Intervals(s.prqsPoints.R, s.samplingRate)

heartRateTruncated(rr, rate) ==
    IF Len(rr) > 0 /\ SumNum(rr) > 0
    THEN (60 * rate * Len(rr)) \div SumNum(rr)
    ELSE 0

\* avgRR = sum / length, or 0 with no interval; heartRate = avgRR > 0 ? round(60 / avgRR) : 0
heartRate(rr, rate) ==
    IF Len(rr) > 0 /\ SumNum(rr) > 0
    THEN Round(60 * rate * Len(rr), SumNum(rr))
    ELSE 0

\* Math.round(avgRR * 1000)
rrInterval(rr, rate) ==
    IF Len(rr) > 0 THEN Round(1000 * SumNum(rr), rate * Len(rr)) ELSE 0

updateStats(s) ==
    IF ~s.ecgData.loaded THEN s
    ELSE LET rr == calculateRRIntervals(s) IN
         [s EXCEPT !.stats = [heartRate |-> heartRate(rr, s.samplingRate),
                              rrInterval |-> rrInterval(rr, s.samplingRate),
                              totalBeats |-> Len(s.prqsPoints.R)]]

BeatsInWindowInclusive(marks, startIdx, endIdx) ==
    SelectSeq(marks, LAMBDA beat : beat.index >= startIdx /\ beat.index <= endIdx)

\* this.prqsPoints.R.filter(beat => beat.index >= startIdx && beat.index < endIdx)
BeatsInWindow(marks, startIdx, endIdx) ==
    SelectSeq(marks, LAMBDA beat : beat.index >= startIdx /\ beat.index < endIdx)

updateStatsAnimated(s, startIdx, endIdx) ==
    IF ~HasLeads(s) THEN s
    ELSE IF ~HasLead(s, FirstSelected(s)) THEN s
    ELSE LET beats == BeatsInWindow(s.prqsPoints.R, startIdx, endIdx)
             intervals == Intervals(beats, s.samplingRate)
             globalIntervals == calculateRRIntervals(s)
             instantaneousHR ==
                 IF Len(beats) >= 2
                 THEN Round(60 * s.samplingRate * Len(intervals), SumNum(intervals))
                 ELSE IF Len(beats) = 1 /\ Len(s.prqsPoints.R) > 1 /\ Len(globalIntervals) > 0
                      THEN Round(60 * s.samplingRate * Len(globalIntervals),
                                 SumNum(globalIntervals))
                      ELSE 0
         IN  [s EXCEPT !.stats.heartRate = instantaneousHR,
                       !.stats.totalBeats = Len(beats)]

(***************************************************************************)
(* Rendering.  mainChart holds the traces of the last Plotly.react on the  *)
(* main chart.  A continuous chart is kept as the arguments of its slices: *)
(* the leads drawn, of which recording, and the two bounds; the other      *)
(* charts as their traces.  A time axis is [first, rate]: point k (from 0) *)
(* is at (first + k) / rate seconds.  An angle is the numerator of theta   *)
(* over the sampling rate.                                                 *)
(***************************************************************************)
NoChart == [kind |-> "empty", traces |-> <<>>]

StartSample(s) == (s.currentAnimationTime * s.samplingRate) \div Seconds(1)
WindowSamples(s) == s.windowSizeSeconds * s.samplingRate
EndSample(s) == Min(StartSample(s) + WindowSamples(s), Len(s.ecgData.leads[1]))

\* updateContinuousDisplay(startSample = 0, endSample = null): 0 stands for null too,
\* as the test is !endSample
updateContinuousDisplay(s, startSample, endSample) ==
    IF ~HasLeads(s) THEN s
    ELSE IF endSample = 0 /\ ~HasLead0(s) THEN Throw(s, "TypeError")
    ELSE LET end == IF endSample = 0 THEN Len(s.ecgData.leads[1]) ELSE endSample IN
         [s EXCEPT !.mainChart =
              [kind |-> "continuous", data |-> s.ecgData.leads,
               selected |-> s.selectedLeads,
               first |-> startSample, last |-> end, rate |-> s.samplingRate]]

\* the leads a continuous chart draws: if (this.ecgData.leads[leadIndex]) skips the others
ShownLeads(chart) ==
    SelectSeq(chart.selected, LAMBDA leadIndex : leadIndex < Len(chart.data))

\* trace j of a continuous chart: y = leadData.slice(startSample, endSample), and the
\* time of its point k (from 0) is (startSample + k) / samplingRate
ContinuousTrace(chart, j) ==
    [lead |-> ShownLeads(chart)[j],
     x |-> [first |-> chart.first, rate |-> chart.rate],
     y |-> Slice(chart.data[ShownLeads(chart)[j] + 1], chart.first, chart.last)]

ChunksWithRemainder(signal, size) ==
    [k \in 1..((Len(signal) + size - 1) \div size) |->
        Slice(signal, (k - 1) * size, k * size)]

\* the chunks generateXORChunks cuts: numChunks = floor(length / xorChunkSize)
Chunks(signal, size) ==
    [k \in 1..(Len(signal) \div size) |-> Slice(signal, (k - 1) * size, k * size)]

xorTracesAgainstPrevious(s) ==
    IF s.xorDisplayMode = "overlay"
    THEN [k \in 1..Min(Len(s.xorChunks), 10) |->
             [x |-> [first |-> 0, rate |-> s.samplingRate], y |-> s.xorChunks[k]]]
    ELSE IF Len(s.xorChunks) >= 2
         THEN [i \in 1..(Min(Len(s.xorChunks), 6) - 1) |->
                  [x |-> [first |-> 0, rate |-> s.samplingRate],
                   y |-> [j \in 1..Len(s.xorChunks[i + 1]) |->
                             Abs(s.xorChunks[i + 1][j] - s.xorChunks[i][j])]]]
         ELSE <<>>

\* the traces updateXORDisplay builds from the chunks
xorTraces(s) ==
    IF s.xorDisplayMode = "overlay"
    THEN [k \in 1..Min(Len(s.xorChunks), 10) |->
             [x |-> [first |-> 0, rate |-> s.samplingRate], y |-> s.xorChunks[k]]]
    ELSE IF Len(s.xorChunks) >= 2
         THEN [i \in 1..(Min(Len(s.xorChunks), 6) - 1) |->
                  [x |-> [first |-> 0, rate |-> s.samplingRate],
                   y |-> [j \in 1..Len(s.xorChunks[i + 1]) |->
                             Abs(s.xorChunks[i + 1][j] - s.xorChunks[1][j])]]]
         ELSE <<>>

RECURSIVE generateXORChunks(_, _)
RECURSIVE updateXORDisplay(_, _)

\* depth is the number of frames of the two functions on the call stack
generateXORChunks(s, depth) ==
    IF depth > MaxStack THEN Throw(s, "RangeError")
    ELSE IF ~HasLeads(s) THEN s
    ELSE LET cleared == [s EXCEPT !.xorChunks = <<>>] IN
         IF ~HasLead(s, FirstSelected(s)) THEN Throw(cleared, "TypeError")
         ELSE updateXORDisplay(
                  [s EXCEPT !.xorChunks =
                       Chunks(s.ecgData.leads[FirstSelected(s) + 1], s.xorChunkSize)],
                  depth + 1)

updateXORDisplay(s, depth) ==
    IF depth > MaxStack THEN Throw(s, "RangeError")
    ELSE IF Len(s.xorChunks) = 0 THEN generateXORChunks(s, depth + 1)
    ELSE [s EXCEPT !.mainChart = [kind |-> "xor", traces |-> xorTraces(s)]]

ThetaUnwrapped(idx, rate) == idx * 360

\* theta = (time * 360) % 360 with time = idx / samplingRate, as a numerator over rate
Theta(idx, rate) == Rem(idx * 360, 360 * rate)

\* the samples of leadData at first, first + step, ... below last, as r and theta
PolarTrace(leadData, indices, rate) ==
    [r |-> [k \in 1..Len(indices) |-> Abs(leadData[indices[k] + 1])],
     theta |-> [k \in 1..Len(indices) |-> Theta(indices[k], rate)],
     rate |-> rate]

\* the indices 0, step, 2 * step, ... below n
Strided(n, step) == [k \in 1..((n + step - 1) \div step) |-> (k - 1) * step]

\* step = Math.max(1, Math.floor(length / 1000))
Stride(n) == Max(1, n \div 1000)

\* Math.max(...values) of a non-empty list
MaxOf(values) ==
    LET all == {values[i] : i \in 1..Len(values)} IN
    CHOOSE m \in all : \A v \in all : v <= m

\* the upper end of the radial axis, max * 1.1, as the fraction <<11 * max, 10>>
Scaled(max) == <<11 * max, 10>>

\* range: [0, Math.max(...leadData.map(Math.abs)) * 1.1]
RadialRange(leadData) ==
    Scaled(MaxOf([i \in 1..Len(leadData) |-> Abs(leadData[i])]))

updatePolarDisplay(s) ==
    IF ~HasLeads(s) THEN s
    ELSE IF ~HasLead(s, s.polarLead) THEN s
    ELSE LET leadData == s.ecgData.leads[s.polarLead + 1] IN
         IF Len(leadData) = 0 THEN s
         ELSE IF s.polarMode = "rolling"
         THEN LET startIdx == Max(0, StartSample(s))
                  endIdx == Min(Len(leadData), startIdx + s.polarWindowSize)
                  windowData == Slice(leadData, startIdx, endIdx)
              IN  [s EXCEPT !.mainChart =
                       [kind |-> "polar",
                        traces |-> <<PolarTrace(leadData,
                                                [i \in 1..Len(windowData) |-> startIdx + i - 1],
                                                s.samplingRate)>>,
                        radialRange |-> RadialRange(leadData)]]
         ELSE [s EXCEPT !.mainChart =
                  [kind |-> "polar",
                   traces |-> <<PolarTrace(leadData,
                                           Strided(Len(leadData), Stride(Len(leadData))),
                                           s.samplingRate)>>,
                   radialRange |-> RadialRange(leadData)]]

updateRecurrenceDisplay(s) ==
    IF ~HasLeads(s) THEN s
    ELSE LET leadXData == IF HasLead(s, s.recurrenceLeadX)
                          THEN s.ecgData.leads[s.recurrenceLeadX + 1] ELSE <<>>
             leadYData == IF HasLead(s, s.recurrenceLeadY)
                          THEN s.ecgData.leads[s.recurrenceLeadY + 1] ELSE <<>>
         IN  IF Len(leadXData) = 0 \/ Len(leadYData) = 0 THEN s
             ELSE LET indices == Strided(Min(Len(leadXData), Len(leadYData)),
                                         Stride(Len(leadXData)))
                  IN  [s EXCEPT !.mainChart =
                          [kind |-> "recurrence",
                           traces |-> <<[type |-> IF s.recurrenceMode = "heatmap"
                                                  THEN "histogram2d" ELSE "scatter",
                                         colorscale |-> s.recurrenceColormap,
                                         x |-> [k \in 1..Len(indices) |->
                                                   leadXData[indices[k] + 1]],
                                         y |-> [k \in 1..Len(indices) |->
                                                   leadYData[indices[k] + 1]],
                                         time |-> [k \in 1..Len(indices) |->
                                                      <<indices[k], s.samplingRate>>]]>>]]

\* updatePolarPlot and updateRecurrencePlot draw the two side charts from the session
updateAdvancedPlots(s) == s

updateDisplay(s) ==
    IF ~s.ecgData.loaded THEN s
    ELSE LET t == CASE s.currentMode = "continuous" -> updateContinuousDisplay(s, 0, 0)
                    [] s.currentMode = "xor" -> updateXORDisplay(s, 1)
                    [] s.currentMode = "polar" -> updatePolarDisplay(s)
                    [] OTHER -> updateRecurrenceDisplay(s)
         IN  IF t.thrown # "none" THEN t ELSE updateStats(updateAdvancedPlots(t))

updateAnimatedDisplay(s) ==
    IF ~HasLeads(s) THEN s
    ELSE IF ~HasLead0(s) THEN Throw(s, "TypeError")
    ELSE updateStatsAnimated(
             updateContinuousDisplay(s, StartSample(s), EndSample(s)),
             StartSample(s), EndSample(s))

(***************************************************************************)
(* PlaybackController: the frame queue of the browser and the handlers.    *)
(***************************************************************************)
Handles == 1..(MaxFrames + 2)

\* requestAnimationFrame returns a handle no pending callback carries
NewHandle(s) ==
    CHOOSE h \in Handles :
        /\ h \notin s.frames
        /\ h # s.animationId
        /\ \A g \in Handles : (g \notin s.frames /\ g # s.animationId) => h <= g

requestAnimationFrame(s) ==
    LET h == NewHandle(s) IN [s EXCEPT !.frames = @ \cup {h}, !.animationId = h]

cancelAnimationFrame(s, h) == [s EXCEPT !.frames = @ \ {h}]

startAnimationAlways(s) ==
    IF ~HasLeads(s) \/ Len(s.ecgData.leads) = 0 THEN showMessage(s, "error")
    ELSE requestAnimationFrame([s EXCEPT !.isAnimating = TRUE])

startAnimation(s) ==
    IF ~HasLeads(s) \/ Len(s.ecgData.leads) = 0 THEN showMessage(s, "error")
    ELSE IF s.isAnimating THEN s
    ELSE requestAnimationFrame([s EXCEPT !.isAnimating = TRUE])

stopAnimationNoCancel(s) ==
    IF ~s.isAnimating THEN s
    ELSE [s EXCEPT !.isAnimating = FALSE, !.animationId = 0]

stopAnimation(s) ==
    IF ~s.isAnimating THEN s
    ELSE LET t == [s EXCEPT !.isAnimating = FALSE] IN
         IF t.animationId # 0
         THEN [cancelAnimationFrame(t, t.animationId) EXCEPT !.animationId = 0]
         ELSE t

toggleAnimation(s) == IF s.isAnimating THEN stopAnimation(s) ELSE startAnimation(s)

AdvanceAtWindow(s) ==
    LET t == s.currentAnimationTime + s.animationStep IN
    [s EXCEPT !.currentAnimationTime =
                  IF t >= MaxTime(s) - Seconds(s.windowSizeSeconds) THEN 0 ELSE t]

AdvanceWithoutWrap(s) ==
    LET t == s.currentAnimationTime + s.animationStep IN
    [s EXCEPT !.currentAnimationTime = IF t >= MaxTime(s) THEN @ ELSE t]

\* the clock step of the animate callback
Advance(s) ==
    LET t == s.currentAnimationTime + s.animationStep IN
    [s EXCEPT !.currentAnimationTime = IF t >= MaxTime(s) THEN 0 ELSE t]

\* one run of the animate callback that carries handle h
animate(s, h) ==
    LET fired == [s EXCEPT !.frames = @ \ {h}] IN
    IF ~fired.isAnimating THEN fired
    ELSE IF ~HasLead0(fired) THEN Throw(fired, "TypeError")
    ELSE LET t == updateAnimatedDisplay(Advance(fired)) IN
         IF t.thrown # "none" THEN t ELSE requestAnimationFrame(t)

\* parseFloat(time): a number, or NaN
Num(v) == [nan |-> FALSE, value |-> v]

seekToTimeKeepPlaying(s, time) ==
    IF time.nan THEN s
    ELSE updateAnimatedDisplay([s EXCEPT !.currentAnimationTime = time.value])

seekToTime(s, time) ==
    IF time.nan THEN s
    ELSE LET t == IF s.isAnimating THEN stopAnimation(s) ELSE s IN
         updateAnimatedDisplay([t EXCEPT !.currentAnimationTime = time.value])

updateAnimationSpeed(s, speed) ==
    LET t == [s EXCEPT !.animationSpeed = speed] IN
    IF t.isAnimating THEN startAnimation(stopAnimation(t)) ELSE t

updateWindowSizeRescaling(s, size) ==
    updateDisplay([s EXCEPT !.windowSizeSeconds = size,
                            !.currentAnimationTime = (@ * size) \div s.windowSizeSeconds])

updateWindowSize(s, size) == updateDisplay([s EXCEPT !.windowSizeSeconds = size])

windowSizeControl(s, size) ==
    updateAnimatedDisplay([s EXCEPT !.windowSizeSeconds = size])

updateSamplingRate(s, rate) == updateDisplay([s EXCEPT !.samplingRate = rate])

animationStepControl(s, step) == [s EXCEPT !.animationStep = step]

(***************************************************************************)
(* Visualization controls: the mode, the lead checkboxes and the controls  *)
(* updateModeControls creates for the chunk, polar and recurrence views.   *)
(***************************************************************************)
\* updateModeControls rebuilds the controls: a new polarWindowSize input holds 1000,
\* and without the input the value read is 1000 as well
updateModeControls(s) == [s EXCEPT !.polarWindowSize = 1000]

switchVisualizationMode(s, mode) ==
    updateDisplay(updateModeControls([s EXCEPT !.currentMode = mode]))

updateLeadSelection(s, leadIndex, checked) ==
    updateDisplay(
        [s EXCEPT !.selectedLeads =
             IF checked
             THEN IF \E j \in 1..Len(@) : @[j] = leadIndex THEN @ ELSE Append(@, leadIndex)
             ELSE SelectSeq(@, LAMBDA idx : idx # leadIndex)])

xorChunkSizeControl(s, size) == generateXORChunks([s EXCEPT !.xorChunkSize = size], 1)

xorDisplayModeControl(s, mode) == updateXORDisplay([s EXCEPT !.xorDisplayMode = mode], 1)

polarLeadControl(s, lead) == updatePolarDisplay([s EXCEPT !.polarLead = lead])

polarModeControl(s, mode) == updatePolarDisplay([s EXCEPT !.polarMode = mode])

\* the listener assigns this.polarWindowSize, which nothing reads; the display reads the input
polarWindowSizeControl(s, size) == updatePolarDisplay([s EXCEPT !.polarWindowSize = size])

recurrenceLeadXControl(s, lead) == updateRecurrenceDisplay([s EXCEPT !.recurrenceLeadX = lead])

recurrenceLeadYControl(s, lead) == updateRecurrenceDisplay([s EXCEPT !.recurrenceLeadY = lead])

recurrenceModeControl(s, mode) == updateRecurrenceDisplay([s EXCEPT !.recurrenceMode = mode])

recurrenceColormapControl(s, colormap) ==
    updateRecurrenceDisplay([s EXCEPT !.recurrenceColormap = colormap])

\* the keydown listener
keyArrowLeft(s) == seekToTime(s, Num(Max(0, s.currentAnimationTime - Seconds(1))))

keyArrowRight(s) ==
    IF ~HasLead0(s) THEN s
    ELSE seekToTime(s, Num(Min(MaxTime(s), s.currentAnimationTime + Seconds(1))))

keyHome(s) == seekToTime(s, Num(0))

keyEnd(s) ==
    IF ~HasLead0(s) THEN s
    ELSE seekToTime(s, Num(Max(0, MaxTime(s) - Seconds(s.windowSizeSeconds))))

(***************************************************************************)
(* Session lifecycle: analysis, upload, reset.                             *)
(***************************************************************************)
analyzeECG(s) ==
    IF ~s.ecgData.loaded THEN showMessage(s, "error")
    ELSE LET t == updateStats(detectQRSComplexes(s)) IN
         IF t.thrown # "none" THEN showMessage([t EXCEPT !.thrown = "none"], "error")
         ELSE showMessage(t, "success")

RemoveAt(q, k) == [j \in 1..(Len(q) - 1) |-> IF j < k THEN q[j] ELSE q[j + 1]]

handleFileUpload(s, file) == [s EXCEPT !.uploads = Append(@, file)]

\* timelineSlider.max = Math.floor(maxTime)
setupTimelineControls(s) ==
    IF ~HasLeads(s) THEN s
    ELSE IF ~HasLead0(s) THEN Throw(s, "TypeError")
    ELSE [s EXCEPT !.sliderMax = Len(s.ecgData.leads[1]) \div s.samplingRate]

\* the try block after the response, and its catch
uploadResponseOk(s, k) ==
    LET drawn == updateDisplay([s EXCEPT !.ecgData = s.uploads[k],
                                         !.uploads = RemoveAt(@, k)])
        t == IF drawn.thrown # "none" THEN drawn ELSE setupTimelineControls(drawn)
    IN  IF t.thrown # "none" THEN showMessage([t EXCEPT !.thrown = "none"], "error")
        ELSE showMessage(t, "success")

uploadResponseError(s, k) == showMessage([s EXCEPT !.uploads = RemoveAt(@, k)], "error")

\* Plotly.purge and initializePlots leave the main chart without traces
clearCharts(s) == [s EXCEPT !.mainChart = NoChart]

resetAnalyzer(s) ==
    showMessage(
        clearCharts([stopAnimation(s) EXCEPT !.ecgData = NoData, !.prqsPoints = NoPoints,
                                             !.currentAnimationTime = 0,
                                             !.isAnimating = FALSE, !.animationId = 0,
                                             !.stats = NoStats]),
        "info")

(***************************************************************************)
(* Inputs.                                                                 *)
(***************************************************************************)
Waveform(lead0, lead1, n) ==
    [loaded |-> TRUE, leads |-> [k \in 1..n |-> IF k = 2 THEN lead1 ELSE lead0]]

\* the upload responses: 12 leads each, two recordings of different length
UploadResponses ==
    { Waveform(<<0, 60, 0, 0, 0, 0>>, <<0, 100, 0, 0, 100, 0>>, 12),
      Waveform(<<0, 0, 60, 0>>, <<0, 0, 100, 0>>, 12) }

SamplingRates == {4, 360}
WindowSizes == {1, 10}
AnimationSteps == {Tenths(1), Tenths(5)}
\* animationSpeed is stored and never read: the frame queue, not a timer, paces the ticks
AnimationSpeeds == {100}
\* what the timeline slider can deliver: the whole seconds from 0 to its max attribute
SliderInputs == {Num(Seconds(k)) : k \in 0..sliderMax}
\* what a caller of seekToTime can pass: a time before 0, one inside and one past the end
SeekCalls == {Num(Seconds(0 - 1)), Num(Seconds(1)), Num(Seconds(20))}

Modes == {"continuous", "xor", "polar", "recurrence"}
\* the lead checkboxes that are clicked
Checkboxes == {1}
XorChunkSizes == {50, 100, 400, 2000}
XorDisplayModes == {"overlay", "difference"}
PolarLeads == {0, 1}
PolarModes == {"rolling", "cumulative"}
PolarWindowSizes == {100, 1000}
RecurrenceLeads == {0, 1}
RecurrenceModes == {"scatter", "heatmap"}
RecurrenceColormaps == {"Viridis", "Hot"}

(***************************************************************************)
(* Initial state: the constructor.                                         *)
(***************************************************************************)
\* the session the constructor leaves
Constructed ==
    [ecgData |-> NoData, samplingRate |-> 360, prqsPoints |-> NoPoints,
     windowSizeSeconds |-> 10, isAnimating |-> FALSE, animationId |-> 0,
     currentAnimationTime |-> 0, animationSpeed |-> 100, animationStep |-> Tenths(1),
     frames |-> {}, uploads |-> <<>>, sliderMax |-> 0, currentMode |-> "continuous",
     selectedLeads |-> AllLeads, xorChunkSize |-> 100, xorChunks |-> <<>>,
     xorDisplayMode |-> "overlay", polarMode |-> "rolling", polarLead |-> 0,
     polarWindowSize |-> 1000, recurrenceLeadX |-> 0, recurrenceLeadY |-> 1,
     recurrenceMode |-> "scatter", recurrenceColormap |-> "Viridis",
     mainChart |-> NoChart, stats |-> NoStats, message |-> "none", thrown |-> "none"]

\* the variables hold session s, which handler name has just left
Begin(s, name) ==
    /\ ecgData = s.ecgData
    /\ samplingRate = s.samplingRate
    /\ prqsPoints = s.prqsPoints
    /\ windowSizeSeconds = s.windowSizeSeconds
    /\ isAnimating = s.isAnimating
    /\ animationId = s.animationId
    /\ currentAnimationTime = s.currentAnimationTime
    /\ animationSpeed = s.animationSpeed
    /\ animationStep = s.animationStep
    /\ frames = s.frames
    /\ uploads = s.uploads
    /\ sliderMax = s.sliderMax
    /\ currentMode = s.currentMode
    /\ selectedLeads = s.selectedLeads
    /\ xorChunkSize = s.xorChunkSize
    /\ xorChunks = s.xorChunks
    /\ xorDisplayMode = s.xorDisplayMode
    /\ polarMode = s.polarMode
    /\ polarLead = s.polarLead
    /\ polarWindowSize = s.polarWindowSize
    /\ recurrenceLeadX = s.recurrenceLeadX
    /\ recurrenceLeadY = s.recurrenceLeadY
    /\ recurrenceMode = s.recurrenceMode
    /\ recurrenceColormap = s.recurrenceColormap
    /\ mainChart = s.mainChart
    /\ stats = s.stats
    /\ lastOp = [op |-> name, wasPlaying |-> FALSE, message |-> s.message,
                 thrown |-> s.thrown]
    /\ halted = FALSE

\* the session after the sampling rate was set to rate, the lead boxes were left as
\* selection, and recording data was uploaded over the marks of an earlier analysis
Uploaded(data, rate, marks, selection) ==
    uploadResponseOk([Constructed EXCEPT !.samplingRate = rate, !.prqsPoints.R = marks,
                                         !.selectedLeads = selection,
                                         !.uploads = <<data>>], 1)

Init == Begin(Constructed, "constructor")

(***************************************************************************)
(* Actions: one per handler.                                               *)
(***************************************************************************)
RoomForFrame == Cardinality(frames) < MaxFrames

HandleFileUpload ==
    \E file \in UploadResponses :
        /\ Len(uploads) < MaxUploads
        /\ \E done \in {handleFileUpload(This, file)} :
               Commit(done) /\ lastOp' = Op("handleFileUpload", done)
        /\ UNCHANGED halted

UploadResponseOk ==
    \E k \in 1..Len(uploads) :
        /\ \E done \in {uploadResponseOk(This, k)} :
               Commit(done) /\ lastOp' = Op("uploadResponseOk", done)
        /\ UNCHANGED halted

UploadResponseError ==
    \E k \in 1..Len(uploads) :
        /\ \E done \in {uploadResponseError(This, k)} :
               Commit(done) /\ lastOp' = Op("uploadResponseError", done)
        /\ UNCHANGED halted

UpdateWindowSize ==
    \E size \in WindowSizes :
        /\ \E done \in {updateWindowSize(This, size)} :
               Commit(done) /\ lastOp' = Op("updateWindowSize", done)
        /\ UNCHANGED halted

WindowSizeControl ==
    \E size \in WindowSizes :
        /\ \E done \in {windowSizeControl(This, size)} :
               Commit(done) /\ lastOp' = Op("windowSizeControl", done)
        /\ UNCHANGED halted

UpdateSamplingRate ==
    \E rate \in SamplingRates :
        /\ \E done \in {updateSamplingRate(This, rate)} :
               Commit(done) /\ lastOp' = Op("updateSamplingRate", done)
        /\ UNCHANGED halted

UpdateAnimationSpeed ==
    \E speed \in AnimationSpeeds :
        /\ RoomForFrame
        /\ \E done \in {updateAnimationSpeed(This, speed)} :
               Commit(done) /\ lastOp' = Op("updateAnimationSpeed", done)
        /\ halted' = IF isAnimating THEN FALSE ELSE halted

AnimationStepControl ==
    \E step \in AnimationSteps :
        /\ \E done \in {animationStepControl(This, step)} :
               Commit(done) /\ lastOp' = Op("animationStepControl", done)
        /\ UNCHANGED halted

ToggleAnimation ==
    /\ RoomForFrame
    /\ \E done \in {toggleAnimation(This)} :
           Commit(done) /\ lastOp' = Op("toggleAnimation", done)
    /\ halted' = isAnimating

StartAnimation ==
    /\ RoomForFrame
    /\ \E done \in {startAnimation(This)} :
           Commit(done) /\ lastOp' = Op("startAnimation", done)
    /\ halted' = FALSE

StopAnimation ==
    /\ \E done \in {stopAnimation(This)} :
           Commit(done) /\ lastOp' = Op("stopAnimation", done)
    /\ halted' = TRUE

Animate ==
    \E h \in frames :
        /\ \E done \in {animate(This, h)} :
               Commit(done) /\ lastOp' = Op("animate", done)
        /\ UNCHANGED halted

SeekToTime ==
    \E time \in SliderInputs :
        /\ \E done \in {seekToTime(This, time)} :
               Commit(done) /\ lastOp' = Op("seekToTime", done)
        /\ halted' = TRUE

KeyArrowLeft ==
    /\ \E done \in {keyArrowLeft(This)} :
           Commit(done) /\ lastOp' = Op("keyArrowLeft", done)
    /\ halted' = TRUE

KeyArrowRight ==
    /\ \E done \in {keyArrowRight(This)} :
           Commit(done) /\ lastOp' = Op("keyArrowRight", done)
    /\ halted' = IF HasLead0(This) THEN TRUE ELSE halted

KeyHome ==
    /\ \E done \in {keyHome(This)} :
           Commit(done) /\ lastOp' = Op("keyHome", done)
    /\ halted' = TRUE

KeyEnd ==
    /\ \E done \in {keyEnd(This)} :
           Commit(done) /\ lastOp' = Op("keyEnd", done)
    /\ halted' = IF HasLead0(This) THEN TRUE ELSE halted

SeekToTimeCall ==
    \E time \in SeekCalls :
        /\ \E done \in {seekToTime(This, time)} :
               Commit(done) /\ lastOp' = Op("seekToTime", done)
        /\ halted' = TRUE

SwitchVisualizationMode ==
    \E mode \in Modes :
        /\ \E done \in {switchVisualizationMode(This, mode)} :
               Commit(done) /\ lastOp' = Op("switchVisualizationMode", done)
        /\ UNCHANGED halted

\* a click on a lead checkbox: the box is checked exactly when its lead is selected
UpdateLeadSelection ==
    \E leadIndex \in Checkboxes :
        LET checked == ~ \E j \in 1..Len(selectedLeads) : selectedLeads[j] = leadIndex IN
        /\ \E done \in {updateLeadSelection(This, leadIndex, checked)} :
               Commit(done) /\ lastOp' = Op("updateLeadSelection", done)
        /\ UNCHANGED halted

\* a click on the checkbox of lead I, the first box of the list
LeadICheckbox ==
    LET checked == ~ \E j \in 1..Len(selectedLeads) : selectedLeads[j] = 0 IN
    /\ \E done \in {updateLeadSelection(This, 0, checked)} :
           Commit(done) /\ lastOp' = Op("updateLeadSelection", done)
    /\ UNCHANGED halted

\* the Generate Chunks button of the chunk controls
GenerateXORChunks ==
    /\ currentMode = "xor"
    /\ \E done \in {generateXORChunks(This, 1)} :
           Commit(done) /\ lastOp' = Op("generateXORChunks", done)
    /\ UNCHANGED halted

XorChunkSizeControl ==
    \E size \in XorChunkSizes :
        /\ currentMode = "xor"
        /\ \E done \in {xorChunkSizeControl(This, size)} :
               Commit(done) /\ lastOp' = Op("xorChunkSizeControl", done)
        /\ UNCHANGED halted

XorDisplayModeControl ==
    \E mode \in XorDisplayModes :
        /\ currentMode = "xor"
        /\ \E done \in {xorDisplayModeControl(This, mode)} :
               Commit(done) /\ lastOp' = Op("xorDisplayModeControl", done)
        /\ UNCHANGED halted

PolarLeadControl ==
    \E lead \in PolarLeads :
        /\ currentMode = "polar"
        /\ \E done \in {polarLeadControl(This, lead)} :
               Commit(done) /\ lastOp' = Op("polarLeadControl", done)
        /\ UNCHANGED halted

PolarModeControl ==
    \E mode \in PolarModes :
        /\ currentMode = "polar"
        /\ \E done \in {polarModeControl(This, mode)} :
               Commit(done) /\ lastOp' = Op("polarModeControl", done)
        /\ UNCHANGED halted

PolarWindowSizeControl ==
    \E size \in PolarWindowSizes :
        /\ currentMode = "polar"
        /\ \E done \in {polarWindowSizeControl(This, size)} :
               Commit(done) /\ lastOp' = Op("polarWindowSizeControl", done)
        /\ UNCHANGED halted

RecurrenceLeadXControl ==
    \E lead \in RecurrenceLeads :
        /\ currentMode = "recurrence"
        /\ \E done \in {recurrenceLeadXControl(This, lead)} :
               Commit(done) /\ lastOp' = Op("recurrenceLeadXControl", done)
        /\ UNCHANGED halted

RecurrenceLeadYControl ==
    \E lead \in RecurrenceLeads :
        /\ currentMode = "recurrence"
        /\ \E done \in {recurrenceLeadYControl(This, lead)} :
               Commit(done) /\ lastOp' = Op("recurrenceLeadYControl", done)
        /\ UNCHANGED halted

RecurrenceModeControl ==
    \E mode \in RecurrenceModes :
        /\ currentMode = "recurrence"
        /\ \E done \in {recurrenceModeControl(This, mode)} :
               Commit(done) /\ lastOp' = Op("recurrenceModeControl", done)
        /\ UNCHANGED halted

RecurrenceColormapControl ==
    \E colormap \in RecurrenceColormaps :
        /\ currentMode = "recurrence"
        /\ \E done \in {recurrenceColormapControl(This, colormap)} :
               Commit(done) /\ lastOp' = Op("recurrenceColormapControl", done)
        /\ UNCHANGED halted

AnalyzeECG ==
    /\ \E done \in {analyzeECG(This)} :
           Commit(done) /\ lastOp' = Op("analyzeECG", done)
    /\ UNCHANGED halted

ResetAnalyzer ==
    /\ \E done \in {resetAnalyzer(This)} :
           Commit(done) /\ lastOp' = Op("resetAnalyzer", done)
    /\ halted' = TRUE

Next ==
    \/ HandleFileUpload
    \/ UploadResponseOk
    \/ UploadResponseError
    \/ UpdateWindowSize
    \/ WindowSizeControl
    \/ UpdateSamplingRate
    \/ UpdateAnimationSpeed
    \/ AnimationStepControl
    \/ ToggleAnimation
    \/ StartAnimation
    \/ StopAnimation
    \/ Animate
    \/ SeekToTime
    \/ KeyArrowLeft
    \/ KeyArrowRight
    \/ KeyHome
    \/ KeyEnd
    \/ AnalyzeECG
    \/ ResetAnalyzer
    \/ SeekToTimeCall
    \/ SwitchVisualizationMode
    \/ UpdateLeadSelection
    \/ GenerateXORChunks
    \/ XorChunkSizeControl
    \/ XorDisplayModeControl
    \/ PolarLeadControl
    \/ PolarModeControl
    \/ PolarWindowSizeControl
    \/ RecurrenceLeadXControl
    \/ RecurrenceLeadYControl
    \/ RecurrenceModeControl
    \/ RecurrenceColormapControl

Spec == Init /\ [][Next]_vars

\* The playback controller with upload and reset: every handler but the analysis,
\* which assigns prqsPoints alone, a field no playback handler reads.
NextPlayback ==
    \/ HandleFileUpload
    \/ UploadResponseOk
    \/ UploadResponseError
    \/ UpdateWindowSize
    \/ WindowSizeControl
    \/ UpdateSamplingRate
    \/ UpdateAnimationSpeed
    \/ AnimationStepControl
    \/ ToggleAnimation
    \/ StartAnimation
    \/ StopAnimation
    \/ Animate
    \/ SeekToTime
    \/ KeyArrowLeft
    \/ KeyArrowRight
    \/ KeyHome
    \/ KeyEnd
    \/ ResetAnalyzer

SpecPlayback == Init /\ [][NextPlayback]_vars

\* The lifecycle of the beat marks: upload, analysis, sampling-rate change, reset.
NextSession ==
    \/ HandleFileUpload
    \/ UploadResponseOk
    \/ UploadResponseError
    \/ UpdateSamplingRate
    \/ AnalyzeECG
    \/ ResetAnalyzer

SpecSession == Init /\ [][NextSession]_vars

(***************************************************************************)
(* The detector as a function of its inputs: every reference lead of at    *)
(* most MaxLen samples, and the 101-sample single-peak signal, loaded as a *)
(* one-lead or a 12-lead recording, under each sampling rate, over a mark  *)
(* list that is empty or left by an earlier analysis.                      *)
(***************************************************************************)
Amplitudes == {0, 50, 100}

SinglePeak101 == [k \in 1..101 |-> IF k <= 51 THEN 2 * (k - 1) ELSE 2 * (101 - k)]

\* two beats seven samples apart
TwoBeats == <<0, 100, 0, 0, 0, 0, 0, 0, 100, 0>>

DetectLeads == SeqOf(Amplitudes, MaxLen) \cup {SinglePeak101, TwoBeats}

DetectInputs ==
    {Waveform(lead, lead, 1) : lead \in DetectLeads}
        \cup {Waveform(<<0, 100, 0>>, lead, 12) : lead \in DetectLeads}

DetectRates == {5, 10, 15, 360}

EarlierMarks == {<<>>, <<[index |-> 3, amplitude |-> 100, time |-> <<3, 360>>]>>}

InitDetect ==
    \E data \in DetectInputs, rate \in DetectRates, marks \in EarlierMarks :
        Begin(Uploaded(data, rate, marks, AllLeads), "uploadResponseOk")

SpecDetect == InitDetect /\ [][AnalyzeECG]_vars

(***************************************************************************)
(* The analysis request on every kind of session: none loaded, a recording *)
(* without leads, one whose leads are empty, and recordings with samples.  *)
(***************************************************************************)
NoLeads == [loaded |-> TRUE, leads |-> <<>>]

AnalysisInputs ==
    {NoLeads, Waveform(<<>>, <<>>, 1), Waveform(<<>>, <<>>, 12),
     Waveform(<<0, 100, 0>>, <<>>, 12)}
        \cup {Waveform(lead, lead, 1) : lead \in SeqOf(Amplitudes, 3)}

InitAnalysis ==
    \/ Begin(Constructed, "constructor")
    \/ \E data \in AnalysisInputs, rate \in DetectRates, marks \in EarlierMarks :
           Begin(Uploaded(data, rate, marks, AllLeads), "uploadResponseOk")

SpecAnalysis == InitAnalysis /\ [][AnalyzeECG]_vars

(***************************************************************************)
(* The chunk, polar and recurrence views, each on its recordings and under *)
(* its own controls, the mode switch included.                             *)
(***************************************************************************)
\* n samples between -(b \div 2) and b \div 2 that do not repeat with a short period
Samples(n, a, b) == [k \in 1..n |-> ((k * a) % b) - (b \div 2)]

\* two-lead recordings of 1000 samples, and of 2500 and 1500 samples
LongRecordings ==
    {Waveform(Samples(1000, 37, 201), Samples(1000, 53, 151), 2),
     Waveform(Samples(2500, 37, 201), Samples(1500, 53, 151), 2)}

\* every pair of leads of one to three samples, and the long pairs in both orders
RecurrenceRecordings ==
    {Waveform(Samples(n, 7, 41), Samples(m, 11, 31), 2) : n, m \in 1..3}
        \cup LongRecordings
        \cup {Waveform(Samples(1500, 53, 151), Samples(2500, 37, 201), 2)}

RenderRates == {250, 360}

InitChunks ==
    \E data \in LongRecordings, selection \in {AllLeads, <<>>} :
        Begin(Uploaded(data, 360, <<>>, selection), "uploadResponseOk")

NextChunks ==
    \/ SwitchVisualizationMode
    \/ UpdateLeadSelection
    \/ GenerateXORChunks
    \/ XorChunkSizeControl
    \/ XorDisplayModeControl

SpecChunks == InitChunks /\ [][NextChunks]_vars

InitPolar ==
    \E data \in LongRecordings, rate \in RenderRates :
        Begin(Uploaded(data, rate, <<>>, AllLeads), "uploadResponseOk")

NextPolar ==
    \/ SwitchVisualizationMode
    \/ PolarLeadControl
    \/ PolarModeControl
    \/ PolarWindowSizeControl
    \/ SeekToTimeCall

SpecPolar == InitPolar /\ [][NextPolar]_vars

InitRecurrence ==
    \E data \in RecurrenceRecordings :
        Begin(Uploaded(data, 360, <<>>, AllLeads), "uploadResponseOk")

NextRecurrence ==
    \/ SwitchVisualizationMode
    \/ RecurrenceLeadXControl
    \/ RecurrenceLeadYControl

SpecRecurrence == InitRecurrence /\ [][NextRecurrence]_vars


(***************************************************************************)
(* The four views on recordings in which a lead is empty or missing.       *)
(***************************************************************************)
\* no lead at all, two empty leads, lead 1 empty, lead 1 missing, lead 0 empty
DegenerateRecordings ==
    {NoLeads,
     Waveform(<<>>, <<>>, 2),
     Waveform(Samples(4, 7, 41), <<>>, 2),
     Waveform(Samples(4, 7, 41), <<>>, 1),
     Waveform(<<>>, Samples(4, 11, 31), 2)}

InitDegenerate ==
    \E data \in DegenerateRecordings, selection \in {AllLeads, <<>>} :
        Begin(Uploaded(data, 360, <<>>, selection), "uploadResponseOk")

NextDegenerate ==
    \/ SwitchVisualizationMode
    \/ UpdateLeadSelection
    \/ GenerateXORChunks
    \/ PolarLeadControl
    \/ PolarModeControl
    \/ RecurrenceLeadXControl
    \/ RecurrenceLeadYControl

SpecDegenerate == InitDegenerate /\ [][NextDegenerate]_vars

(***************************************************************************)
(* The statistics of the visible window: a recording with four beats, an   *)
(* analysis, and the seeks and ticks that move the window over the marks.  *)
(***************************************************************************)
\* beats at samples 1, 4, 11 and 14
FourBeats == <<0, 100, 0, 0, 100, 0, 0, 0, 0, 0, 0, 100, 0, 0, 100, 0>>

BeatRecordings == {Waveform(FourBeats, FourBeats, 12)}

WindowRates == {5, 7}

InitWindowStats ==
    \E data \in BeatRecordings, rate \in WindowRates :
        Begin(Uploaded(data, rate, <<>>, AllLeads), "uploadResponseOk")

NextWindowStats ==
    \/ AnalyzeECG
    \/ SeekToTimeCall
    \/ KeyArrowLeft
    \/ KeyArrowRight
    \/ WindowSizeControl
    \/ StartAnimation
    \/ StopAnimation
    \/ Animate

SpecWindowStats == InitWindowStats /\ [][NextWindowStats]_vars

(***************************************************************************)
(* The view controls, each used once on a prepared session: an analysed    *)
(* recording at a time past 0, paused or playing, in each of the views.    *)
(***************************************************************************)
FrameRecordings == {Waveform(Samples(100, 37, 201), Samples(100, 53, 151), 2)}

\* the session after an upload, an analysis and a seek to 0.1 s
AnalysedAndMoved(data, selection) ==
    seekToTime(analyzeECG(Uploaded(data, 360, <<>>, selection)), Num(Tenths(1)))

\* the prepared sessions: paused or playing, then switched to a view
PreparedSessions ==
    LET paused == {AnalysedAndMoved(data, selection) :
                      data \in FrameRecordings, selection \in {AllLeads, <<>>}}
        playing == {startAnimation(session) : session \in paused}
    IN  {switchVisualizationMode(session, mode) :
            session \in paused \cup playing, mode \in Modes}

InitFrame == \E session \in PreparedSessions : Begin(session, "prepared")

Prepared == lastOp.op = "prepared"

NextFrame ==
    \/ Prepared /\ SwitchVisualizationMode
    \/ Prepared /\ UpdateLeadSelection
    \/ Prepared /\ UpdateWindowSize
    \/ Prepared /\ WindowSizeControl
    \/ Prepared /\ AnimationStepControl
    \/ Prepared /\ GenerateXORChunks
    \/ Prepared /\ XorChunkSizeControl
    \/ Prepared /\ XorDisplayModeControl
    \/ Prepared /\ PolarLeadControl
    \/ Prepared /\ PolarModeControl
    \/ Prepared /\ PolarWindowSizeControl
    \/ Prepared /\ RecurrenceLeadXControl
    \/ Prepared /\ RecurrenceLeadYControl
    \/ Prepared /\ RecurrenceModeControl
    \/ Prepared /\ RecurrenceColormapControl

SpecFrame == InitFrame /\ [][NextFrame]_vars

(***************************************************************************)
(* The lead checkboxes: the boxes of leads I and II clicked in any order,  *)
(* and the chunk view that is cut from the first selected lead.            *)
(***************************************************************************)
SelectionRecordings == {Waveform(Samples(500, 37, 201), Samples(500, 53, 151), 12)}

InitSelection ==
    \E data \in SelectionRecordings :
        Begin(Uploaded(data, 360, <<>>, AllLeads), "uploadResponseOk")

NextSelection ==
    \/ LeadICheckbox
    \/ UpdateLeadSelection
    \/ SwitchVisualizationMode
    \/ GenerateXORChunks

SpecSelection == InitSelection /\ [][NextSelection]_vars

(***************************************************************************)
(* The main chart under the operations that redraw it: the mode switch,    *)
(* the lead checkboxes, the window size, the seek and the ticks.           *)
(***************************************************************************)
RedrawRecordings == {Waveform(Samples(200, 37, 201), Samples(200, 53, 151), 12)}

InitRedraw ==
    \E data \in RedrawRecordings :
        Begin(Uploaded(data, 360, <<>>, AllLeads), "uploadResponseOk")

NextRedraw ==
    \/ SwitchVisualizationMode
    \/ UpdateLeadSelection
    \/ UpdateWindowSize
    \/ SeekToTimeCall
    \/ StartAnimation
    \/ Animate

SpecRedraw == InitRedraw /\ [][NextRedraw]_vars

(***************************************************************************)
(* The chunk view across sessions: a recording of two chunks is loaded,    *)
(* then replaced by an upload, with or without a reset in between, while   *)
(* the mode and the lead checkboxes are used.                              *)
(***************************************************************************)
InitReload ==
    \E data \in RedrawRecordings :
        Begin(Uploaded(data, 360, <<>>, AllLeads), "uploadResponseOk")

NextReload ==
    \/ SwitchVisualizationMode
    \/ UpdateLeadSelection
    \/ LeadICheckbox
    \/ GenerateXORChunks
    \/ HandleFileUpload
    \/ UploadResponseOk
    \/ ResetAnalyzer

SpecReload == InitReload /\ [][NextReload]_vars

(***************************************************************************)
(* Playback left to itself: the animation is started and the browser runs  *)
(* every frame callback it was asked for; the step may change, and nothing *)
(* stops, seeks or resets.                                                 *)
(***************************************************************************)
InitLoop ==
    \E data \in UploadResponses, rate \in SamplingRates :
        Begin(Uploaded(data, rate, <<>>, AllLeads), "uploadResponseOk")

NextLoop ==
    \/ StartAnimation
    \/ Animate
    \/ AnimationStepControl

\* requestAnimationFrame runs a requested callback before the next repaint
SpecLoop == InitLoop /\ [][NextLoop]_vars /\ WF_vars(Animate)

(***************************************************************************)
(* Properties of the detector, under SpecDetect.                           *)
(***************************************************************************)
Analyzed == lastOp.op = "analyzeECG"

\* the reference lead of the loaded recording: leads[1], else leads[0]
LeadII == IF Len(ecgData.leads) >= 2 THEN ecgData.leads[2] ELSE ecgData.leads[1]

MarkedIndices == {prqsPoints.R[k].index : k \in 1..Len(prqsPoints.R)}

\* floor(0.2 * samplingRate)
Gap == samplingRate \div 5

StrictPeaks ==
    {i \in 1..(Len(LeadII) - 2) :
        LeadII[i + 1] > LeadII[i] /\ LeadII[i + 1] > LeadII[i + 2] /\ LeadII[i + 1] > 50}

\* C1: after detectQRSComplexes no two R-marks have sample indices that differ by
\* less than floor(0.2 * samplingRate), for every reference lead and sampling rate.
C1_MinimumGap ==
    Analyzed =>
        \A j, k \in 1..Len(prqsPoints.R) :
            j # k =>
                LET d == prqsPoints.R[k].index - prqsPoints.R[j].index IN
                (IF d < 0 THEN -d ELSE d) >= Gap

\* two marks were emitted and a strict peak between them was suppressed
C1_Witness ==
    /\ Analyzed
    /\ Len(prqsPoints.R) = 2
    /\ Gap >= 2
    /\ \E i \in StrictPeaks :
           i \notin MarkedIndices /\ prqsPoints.R[1].index < i /\ i < prqsPoints.R[2].index

\* C2: detectQRSComplexes replaces the R-mark list by the left-to-right scan of the
\* reference lead: index i of 1..length-2 is marked iff it is a strict peak above 0.5 mV
\* and not among the floor(0.2 * samplingRate) samples after an earlier mark; each mark
\* is {index i, amplitude lead[i], time i / samplingRate}; the 101-sample single-peak
\* signal yields exactly one mark, at index 50.
C2_ScanResult ==
    Analyzed =>
        /\ \A k \in 1..(Len(prqsPoints.R) - 1) :
               prqsPoints.R[k].index < prqsPoints.R[k + 1].index
        /\ MarkedIndices \subseteq 0..(Len(LeadII) - 1)
        /\ \A i \in 0..(Len(LeadII) - 1) :
               i \in MarkedIndices <=>
                   /\ i \in StrictPeaks
                   /\ ~ \E m \in MarkedIndices : m < i /\ i <= m + Gap
        /\ \A k \in 1..Len(prqsPoints.R) :
               /\ prqsPoints.R[k].amplitude = LeadII[prqsPoints.R[k].index + 1]
               /\ prqsPoints.R[k].time = <<prqsPoints.R[k].index, samplingRate>>
        /\ LeadII = SinglePeak101 => Len(prqsPoints.R) = 1 /\ MarkedIndices = {50}

\* the single-peak signal was analysed: one mark, at index 50, amplitude 1.0 mV
C2_Witness ==
    /\ Analyzed
    /\ LeadII = SinglePeak101
    /\ Len(prqsPoints.R) = 1
    /\ prqsPoints.R[1].index = 50
    /\ prqsPoints.R[1].amplitude = 100

\* C10: after detection every R-mark has a companion Q-mark at the minimum of
\* [max(0, R-50), R) and a companion S-mark at the minimum of (R, min(len-1, R+50)],
\* so the Q and S lists have one entry per R-mark.
C10_CompanionMarks ==
    Analyzed =>
        /\ Len(prqsPoints.Q) = Len(prqsPoints.R)
        /\ Len(prqsPoints.S) = Len(prqsPoints.R)
        /\ \A k \in 1..Len(prqsPoints.R) :
               LET r == prqsPoints.R[k].index
                   q == prqsPoints.Q[k].index
                   z == prqsPoints.S[k].index
               IN  /\ q \in Max(0, r - 50)..(r - 1)
                   /\ \A j \in Max(0, r - 50)..(r - 1) : LeadII[q + 1] <= LeadII[j + 1]
                   /\ z \in (r + 1)..Min(Len(LeadII) - 1, r + 50)
                   /\ \A j \in (r + 1)..Min(Len(LeadII) - 1, r + 50) :
                          LeadII[z + 1] <= LeadII[j + 1]

(***************************************************************************)
(* Properties of the playback controller, under SpecPlayback.              *)
(***************************************************************************)
Loaded == ecgData.loaded /\ Len(ecgData.leads) >= 1

\* totalDuration = lead-0 sample count / samplingRate, in 1/360 s
TotalDuration == (360 * Len(ecgData.leads[1])) \div samplingRate

WindowLength == 360 * windowSizeSeconds

Clamp(t, lo, hi) == IF t < lo THEN lo ELSE IF t > hi THEN hi ELSE t

\* a step of the animate callback that found the controller Playing on a recording
TickStep == lastOp'.op = "animate" /\ isAnimating /\ Loaded

C4_SeekClamps ==
    [][\A time \in SliderInputs :
           (/\ Loaded
            /\ lastOp'.op = "seekToTime"
            /\ Commit(seekToTime(This, time)))
               => /\ ~isAnimating'
                  /\ currentAnimationTime' = Clamp(time.value, 0, TotalDuration)]_vars

\* C5: once a stop or a seek has been applied, no tick callback is left to run and none
\* changes currentTime until play is called again.
C5_NoTickAfterHalt ==
    [][/\ halted => frames = {}
       /\ (halted /\ lastOp'.op = "animate")
              => currentAnimationTime' = currentAnimationTime]_vars

\* a seek found the controller Playing with a tick scheduled, and no tick is left
C5_Witness ==
    /\ halted
    /\ lastOp.op = "seekToTime"
    /\ lastOp.wasPlaying
    /\ ~isAnimating
    /\ frames = {}
    /\ currentAnimationTime > 0

\* C6: whenever a waveform is loaded, 0 <= currentTime < totalDuration.
C6_TimeInRange ==
    Loaded => 0 <= currentAnimationTime /\ currentAnimationTime < TotalDuration

C8_Idempotent ==
    [][(\/ lastOp'.op = "startAnimation" /\ isAnimating
        \/ lastOp'.op = "stopAnimation" /\ ~isAnimating)
           => UNCHANGED <<isAnimating, currentAnimationTime, frames, animationId>>]_vars

\* play was called on a controller that was Playing with its tick scheduled
C8_Witness ==
    /\ lastOp.op = "startAnimation"
    /\ lastOp.wasPlaying
    /\ isAnimating
    /\ frames = {animationId}

(***************************************************************************)
(* Properties of the beat marks' lifecycle, under SpecSession.             *)
(***************************************************************************)
\* C9: the beat marks are empty after reset and after every successful upload, and
\* stay empty until the next analysis.
C9_MarksCleared ==
    [][/\ lastOp'.op \in {"uploadResponseOk", "resetAnalyzer"} => prqsPoints'.R = <<>>
       /\ (prqsPoints.R = <<>> /\ lastOp'.op # "analyzeECG") => prqsPoints'.R = <<>>]_vars

(***************************************************************************)
(* Properties of the analysis request, under SpecAnalysis and SpecDetect.  *)
(***************************************************************************)
\* the waveform or its reference lead is empty or missing
InvalidInput ==
    \/ ~ecgData.loaded
    \/ Len(ecgData.leads) = 0
    \/ Len(LeadII) = 0

\* C11: an analysis request on a session whose waveform or reference lead is empty or
\* missing ends with an error shown to the caller, not with a success, and leaves no
\* earlier mark reported as its result.
C11_InvalidInputFails ==
    (Analyzed /\ InvalidInput) =>
        /\ lastOp.message = "error"
        /\ prqsPoints.R = <<>>
        /\ stats.totalBeats \in {Blank, 0}

\* C12: calculateRRIntervals returns max(0, n - 1) intervals for n R-marks, interval i
\* being (R[i].index - R[i-1].index) / samplingRate, strictly positive for the marks of
\* the detector.
C12_RRIntervals ==
    LET rr == calculateRRIntervals(This)
        n == Len(prqsPoints.R)
    IN  /\ Len(rr) = Max(0, n - 1)
        /\ \A i \in 1..Len(rr) :
               /\ rr[i] = <<prqsPoints.R[i + 1].index - prqsPoints.R[i].index, samplingRate>>
               /\ Analyzed => rr[i][1] > 0 /\ rr[i][2] > 0

\* the detector left three marks: two intervals
C12_Witness ==
    /\ Analyzed
    /\ Len(prqsPoints.R) = 3
    /\ Len(calculateRRIntervals(This)) = 2
    /\ prqsPoints.R[2].index - prqsPoints.R[1].index >= 2

\* C13: the heart rate the analysis reports is round(60 / meanRR), a natural number, and
\* 0 with fewer than 2 R-marks; meanRR is (last index - first index) / (n - 1) /
\* samplingRate, and h = round(x) iff h - 1/2 <= x < h + 1/2.
C13_HeartRate ==
    (Analyzed /\ ecgData.loaded) =>
        LET n == Len(prqsPoints.R)
            num == prqsPoints.R[n].index - prqsPoints.R[1].index
            den == samplingRate * (n - 1)
            h == stats.heartRate
        IN  /\ h \in Nat
            /\ n < 2 => h = 0
            /\ n >= 2 => /\ (2 * h - 1) * num <= 120 * den
                         /\ 120 * den < (2 * h + 1) * num

\* two marks whose 60 / meanRR is not a whole number: the rounding decided the rate
C13_Witness ==
    /\ Analyzed
    /\ Len(prqsPoints.R) = 2
    /\ stats.heartRate > 0
    /\ (60 * samplingRate)
           % (prqsPoints.R[2].index - prqsPoints.R[1].index) # 0
    /\ stats.totalBeats = 2

(***************************************************************************)
(* Properties of the continuous view, under SpecPlayback.                  *)
(***************************************************************************)
\* the handlers that draw the main chart in SpecPlayback
Renders ==
    {"animate", "seekToTime", "keyArrowLeft", "keyArrowRight", "keyHome", "keyEnd",
     "windowSizeControl", "updateWindowSize", "updateSamplingRate", "uploadResponseOk"}

\* C14: in continuous mode the trace of each selected lead is the slice
\* [startSample, endSample) with startSample = floor(currentTime * samplingRate) and
\* endSample = min(startSample + floor(W * R), leadLength), whichever operation caused
\* the render, and 0 <= startSample <= endSample <= leadLength.
C14_WindowSlice ==
    (Loaded /\ currentMode = "continuous" /\ mainChart.kind = "continuous"
        /\ lastOp.op \in Renders) =>
        LET leadLength == Len(ecgData.leads[1])
            startSample == (currentAnimationTime * samplingRate) \div 360
            endSample == Min(startSample + windowSizeSeconds * samplingRate, leadLength)
        IN  /\ mainChart.first = startSample
            /\ mainChart.last = endSample
            /\ 0 <= startSample /\ startSample <= endSample /\ endSample <= leadLength
            /\ \A j \in 1..Len(ShownLeads(mainChart)) :
                   /\ \E k \in 1..Len(selectedLeads) :
                          selectedLeads[k] = ContinuousTrace(mainChart, j).lead
                   /\ ContinuousTrace(mainChart, j).y
                          = Slice(ecgData.leads[ContinuousTrace(mainChart, j).lead + 1],
                                  startSample, endSample)

(***************************************************************************)
(* Properties of the chunk view, under SpecChunks.                         *)
(***************************************************************************)
\* the lead the chunks are cut from: the first selected lead, lead 0 when none is
ReferenceSignal == ecgData.leads[FirstSelected(This) + 1]

ChunksGenerated == lastOp.op \in {"generateXORChunks", "xorChunkSizeControl"}

\* the handlers that draw the chunk view
XorRenders ==
    {"switchVisualizationMode", "updateLeadSelection", "generateXORChunks",
     "xorChunkSizeControl", "xorDisplayModeControl"}

\* the last handler drew the chunk view to the end
XorRendered ==
    /\ currentMode = "xor"
    /\ lastOp.op \in XorRenders
    /\ lastOp.thrown = "none"
    /\ mainChart.kind = "xor"

\* C15: generateXORChunks partitions the reference lead into floor(length /
\* chunkSizeSamples) chunks, chunk k being the samples [k * size, (k + 1) * size), each
\* of size samples; the remainder is discarded.
C15_ChunkPartition ==
    ChunksGenerated =>
        /\ Len(xorChunks) = Len(ReferenceSignal) \div xorChunkSize
        /\ \A k \in 1..Len(xorChunks) :
               /\ Len(xorChunks[k]) = xorChunkSize
               /\ \A j \in 1..xorChunkSize :
                      xorChunks[k][j] = ReferenceSignal[(k - 1) * xorChunkSize + j]

\* chunks were cut from lead 1, the first selected lead, and a remainder was discarded
C15_Witness ==
    /\ ChunksGenerated
    /\ FirstSelected(This) = 1
    /\ Len(xorChunks) >= 2
    /\ Len(ReferenceSignal) % xorChunkSize # 0

\* C16: with count chunks, overlay mode emits min(10, count) traces, the first chunks
\* unchanged on a time axis from 0, and difference mode emits min(5, count - 1) traces,
\* trace i being abs(chunk[i][j] - chunk[0][j]), each as long as a chunk; a 1000-sample
\* lead with chunkSizeSamples = 100 gives 10 chunks and 5 difference traces of length 100.
C16_ChunkTraces ==
    XorRendered =>
        LET count == Len(xorChunks)
            traces == mainChart.traces
        IN  /\ xorDisplayMode = "overlay" =>
                   /\ Len(traces) = Min(10, count)
                   /\ \A k \in 1..Len(traces) :
                          traces[k].y = xorChunks[k] /\ traces[k].x.first = 0
            /\ xorDisplayMode = "difference" =>
                   /\ Len(traces) = Min(5, count - 1)
                   /\ \A i \in 1..Len(traces) :
                          /\ Len(traces[i].y) = Len(xorChunks[1])
                          /\ traces[i].x.first = 0
                          /\ \A j \in 1..Len(traces[i].y) :
                                 traces[i].y[j] = Abs(xorChunks[i + 1][j] - xorChunks[1][j])
            /\ (ChunksGenerated /\ Len(ReferenceSignal) = 1000 /\ xorChunkSize = 100) =>
                   /\ count = 10
                   /\ xorDisplayMode = "difference" =>
                          /\ Len(traces) = 5
                          /\ \A i \in 1..5 : Len(traces[i].y) = 100

\* the 1000-sample lead was cut into chunks of 100 in difference mode
C16_Witness ==
    /\ XorRendered
    /\ ChunksGenerated
    /\ xorDisplayMode = "difference"
    /\ Len(ReferenceSignal) = 1000
    /\ xorChunkSize = 100
    /\ Len(mainChart.traces) = 5

\* C17: with fewer than 2 chunks, rendering the chunk view in difference mode ends and
\* emits an empty trace set.
C17_DifferenceTerminates ==
    (/\ currentMode = "xor"
     /\ xorDisplayMode = "difference"
     /\ lastOp.op \in XorRenders
     /\ Len(xorChunks) < 2) =>
        /\ lastOp.thrown = "none"
        /\ mainChart = [kind |-> "xor", traces |-> <<>>]

(***************************************************************************)
(* Properties of the recurrence view, under SpecRecurrence.                *)
(***************************************************************************)
RecurrenceRendered ==
    /\ currentMode = "recurrence"
    /\ lastOp.op \in {"switchVisualizationMode", "recurrenceLeadXControl",
                      "recurrenceLeadYControl"}
    /\ mainChart.kind = "recurrence"

\* C18: recurrence decimation gives an x and a y series of equal length, each of at most
\* 1000 points, whose k-th entries are leadX[k * step] and leadY[k * step] for one step.
C18_RecurrenceDecimation ==
    RecurrenceRendered =>
        LET trace == mainChart.traces[1]
            leadX == ecgData.leads[recurrenceLeadX + 1]
            leadY == ecgData.leads[recurrenceLeadY + 1]
        IN  /\ Len(trace.x) = Len(trace.y)
            /\ Len(trace.x) <= 1000
            /\ \E step \in 1..Len(leadX) :
                   \A k \in 1..Len(trace.x) :
                       /\ trace.x[k] = leadX[(k - 1) * step + 1]
                       /\ trace.y[k] = leadY[(k - 1) * step + 1]

(***************************************************************************)
(* Properties of the polar view, under SpecPolar.                          *)
(***************************************************************************)
PolarRendered ==
    /\ currentMode = "polar"
    /\ lastOp.op \in {"switchVisualizationMode", "polarLeadControl", "polarModeControl",
                      "polarWindowSizeControl"}
    /\ mainChart.kind = "polar"

\* C19: polar cumulative mode plots at most 1000 points for every lead length: the
\* samples at 0, step, 2 * step, ... with step = max(1, floor(length / 1000)).
C19_CumulativeDecimation ==
    (PolarRendered /\ polarMode = "cumulative") =>
        LET trace == mainChart.traces[1]
            leadData == ecgData.leads[polarLead + 1]
            step == Max(1, Len(leadData) \div 1000)
        IN  /\ Len(trace.r) <= 1000
            /\ Len(trace.r) = (Len(leadData) + step - 1) \div step
            /\ \A k \in 1..Len(trace.r) : trace.r[k] = Abs(leadData[(k - 1) * step + 1])

\* C20: in polar rolling mode every plotted sample has r = |amplitude| and
\* theta = (time * 360) mod 360 with 0 <= theta < 360, for every currentTime, one set by
\* a seek before 0 or past the end included, and every sampling rate.
C20_RollingPolar ==
    (PolarRendered /\ polarMode = "rolling") =>
        LET trace == mainChart.traces[1]
            leadData == ecgData.leads[polarLead + 1]
            startIdx == Max(0, (currentAnimationTime * samplingRate) \div 360)
        IN  /\ Len(trace.r) = Len(trace.theta)
            /\ Len(trace.r) = Max(0, Min(Len(leadData), startIdx + polarWindowSize) - startIdx)
            /\ \A k \in 1..Len(trace.r) :
                   /\ trace.r[k] = Abs(leadData[startIdx + k])
                   /\ 0 <= trace.theta[k] /\ trace.theta[k] < 360 * samplingRate
                   /\ ((startIdx + k - 1) * 360 - trace.theta[k]) % (360 * samplingRate) = 0

\* the rolling window was drawn after a seek to a time before 0, at 250 Hz
C20_Witness ==
    /\ PolarRendered
    /\ polarMode = "rolling"
    /\ currentAnimationTime < 0
    /\ samplingRate = 250
    /\ Len(mainChart.traces[1].r) = 1000
    /\ \E k \in 1..1000 : ecgData.leads[polarLead + 1][k] < 0

\* C21: the upper end of the radial axis of the polar plot is 1.1 times the largest
\* |amplitude| among the samples plotted: those of the rolling window in rolling mode,
\* the decimated ones in cumulative mode.
C21_RadialRange ==
    (PolarRendered /\ Len(mainChart.traces[1].r) > 0) =>
        mainChart.radialRange = Scaled(MaxOf(mainChart.traces[1].r))

(***************************************************************************)
(* Properties of the views on an empty or missing lead, under              *)
(* SpecDegenerate.                                                         *)
(***************************************************************************)
\* lead idx of the loaded recording is empty or missing
NoSamples(idx) == idx >= Len(ecgData.leads) \/ Len(ecgData.leads[idx + 1]) = 0

\* the lead the current view needs is empty or missing
NeededLeadAbsent ==
    CASE currentMode = "continuous" -> NoSamples(0)
      [] currentMode = "xor" -> NoSamples(FirstSelected(This))
      [] currentMode = "polar" -> NoSamples(polarLead)
      [] OTHER -> NoSamples(recurrenceLeadX) \/ NoSamples(recurrenceLeadY)

\* no point is on the main chart
NothingPlotted ==
    CASE mainChart.kind = "empty" -> TRUE
      [] mainChart.kind = "continuous" ->
             \A j \in 1..Len(ShownLeads(mainChart)) : ContinuousTrace(mainChart, j).y = <<>>
      [] mainChart.kind = "xor" ->
             \A k \in 1..Len(mainChart.traces) : mainChart.traces[k].y = <<>>
      [] mainChart.kind = "polar" ->
             \A k \in 1..Len(mainChart.traces) : mainChart.traces[k].r = <<>>
      [] OTHER ->
             \A k \in 1..Len(mainChart.traces) : mainChart.traces[k].x = <<>>

\* the handlers that draw the main chart from the view controls
ViewRenders ==
    {"switchVisualizationMode", "updateLeadSelection", "generateXORChunks",
     "polarLeadControl", "polarModeControl", "recurrenceLeadXControl",
     "recurrenceLeadYControl"}

\* C22: each of the four views, on a loaded recording in which the lead it needs is
\* empty or missing, ends without throwing and leaves no point on the main chart: it
\* neither raises an error nor keeps the traces drawn before.
C22_EmptyTraceSet ==
    (ecgData.loaded /\ lastOp.op \in ViewRenders /\ NeededLeadAbsent) =>
        /\ lastOp.thrown = "none"
        /\ NothingPlotted

(***************************************************************************)
(* Properties of the statistics of the visible window, under               *)
(* SpecWindowStats.                                                        *)
(***************************************************************************)
\* the handlers that draw the visible window and its statistics
WindowRenders ==
    {"animate", "seekToTime", "keyArrowLeft", "keyArrowRight", "windowSizeControl"}

WindowRendered == Loaded /\ lastOp.op \in WindowRenders /\ lastOp.thrown = "none"

VisibleStart == (currentAnimationTime * samplingRate) \div 360

VisibleEnd == Min(VisibleStart + windowSizeSeconds * samplingRate, Len(ecgData.leads[1]))

\* the positions in the R list of the marks inside the visible range
InWindow ==
    {k \in 1..Len(prqsPoints.R) :
        VisibleStart <= prqsPoints.R[k].index /\ prqsPoints.R[k].index < VisibleEnd}

\* h is round(60 / meanRR) where meanRR is span samples over intervals intervals
RoundedRate(h, span, intervals) ==
    /\ (2 * h - 1) * span <= 120 * samplingRate * intervals
    /\ 120 * samplingRate * intervals < (2 * h + 1) * span

\* C23: for the visible range [startSample, endSample) the beats in the window are the
\* R-marks with startSample <= index < endSample; the instantaneous heart rate is
\* round(60 / mean RR of those beats) with at least 2 of them, round(60 / global mean
\* RR) with exactly 1 and at least 2 marks in all, and 0 otherwise: always a natural
\* number.
C23_InstantaneousRate ==
    WindowRendered =>
        LET n == Cardinality(InWindow)
            first == CHOOSE k \in InWindow : \A j \in InWindow : k <= j
            last == CHOOSE k \in InWindow : \A j \in InWindow : j <= k
            all == Len(prqsPoints.R)
            h == stats.heartRate
        IN  /\ stats.totalBeats = n
            /\ h \in Nat
            /\ n >= 2 =>
                   RoundedRate(h, prqsPoints.R[last].index - prqsPoints.R[first].index, n - 1)
            /\ (n = 1 /\ all >= 2) =>
                   RoundedRate(h, prqsPoints.R[all].index - prqsPoints.R[1].index, all - 1)
            /\ (n = 0 \/ (n = 1 /\ all < 2)) => h = 0

\* one beat of four is in the window and the global mean, not a whole number of beats
\* per minute, decided the rate
C23_Witness ==
    /\ WindowRendered
    /\ Len(prqsPoints.R) = 4
    /\ Cardinality(InWindow) = 1
    /\ stats.heartRate > 0
    /\ (180 * samplingRate) % (prqsPoints.R[4].index - prqsPoints.R[1].index) # 0

(***************************************************************************)
(* Properties of the view controls, under SpecFrame.                       *)
(***************************************************************************)
\* the mode switch, the lead checkboxes and the parameter controls
ViewControls ==
    {"switchVisualizationMode", "updateLeadSelection", "updateWindowSize",
     "windowSizeControl", "animationStepControl", "generateXORChunks",
     "xorChunkSizeControl", "xorDisplayModeControl", "polarLeadControl",
     "polarModeControl", "polarWindowSizeControl", "recurrenceLeadXControl",
     "recurrenceLeadYControl", "recurrenceModeControl", "recurrenceColormapControl"}

\* C24: a mode switch, a lead-selection change or a parameter change (window size, step
\* size, chunk size and display mode, polar lead, mode and window, recurrence leads,
\* mode and colormap), with the re-rendering it triggers, leaves the R-mark list,
\* currentTime and isPlaying as they were.
C24_ViewControlsFrame ==
    [][lastOp'.op \in ViewControls =>
          /\ prqsPoints' = prqsPoints
          /\ currentAnimationTime' = currentAnimationTime
          /\ isAnimating' = isAnimating]_vars

\* a control of the recurrence view was used while playing at a time past 0 with marks
C24_Witness ==
    /\ lastOp.op = "recurrenceColormapControl"
    /\ lastOp.wasPlaying
    /\ isAnimating
    /\ currentAnimationTime > 0
    /\ Len(prqsPoints.R) > 0

(***************************************************************************)
(* Properties of the lead selection, under SpecSelection.                  *)
(***************************************************************************)
SelectedSet == {selectedLeads[k] : k \in 1..Len(selectedLeads)}

\* the selection a new session starts with: the 12 leads in checkbox order
InitialSelection == AllLeads

InitialSet == {InitialSelection[k] : k \in 1..Len(InitialSelection)}

\* C25: the selected leads behave as a set: no lead index is in the list twice, and a
\* session whose clicks ended with the set of leads a new session starts with cuts its
\* chunks from the same lead as the new session does, the first of the 12.
C25_SelectionIsSet ==
    /\ \A i, j \in 1..Len(selectedLeads) :
           selectedLeads[i] = selectedLeads[j] => i = j
    /\ (ChunksGenerated /\ lastOp.thrown = "none" /\ SelectedSet = InitialSet) =>
           xorChunks = Chunks(ecgData.leads[InitialSelection[1] + 1], xorChunkSize)

(***************************************************************************)
(* Properties of the redrawn main chart, under SpecRedraw.                 *)
(***************************************************************************)
\* the operations that redraw the main chart
Redraws ==
    {"animate", "seekToTime", "updateWindowSize", "switchVisualizationMode",
     "updateLeadSelection"}

Redrawn == Loaded /\ lastOp.op \in Redraws /\ lastOp.thrown = "none"

\* C26: after a tick, a seek, a window-size change, a mode switch or a lead-selection
\* change the main chart holds the traces of the selected visualization mode.
C26_ChartOfSelectedMode == Redrawn => mainChart.kind = currentMode

(***************************************************************************)
(* Properties of the chunk view across sessions, under SpecReload.         *)
(***************************************************************************)
\* the last handler drew the chunk view of a loaded recording
ChunkViewDrawn ==
    /\ Loaded
    /\ currentMode = "xor"
    /\ lastOp.op \in XorRenders \cup {"uploadResponseOk"}
    /\ lastOp.thrown = "none"
    /\ lastOp.message # "error"
    /\ mainChart.kind = "xor"

\* C27: whenever the chunk view is drawn, the chunks are the partition of the first
\* selected lead of the loaded recording with the current chunk size.
C27_ChunksOfCurrentLead ==
    ChunkViewDrawn => xorChunks = Chunks(ReferenceSignal, xorChunkSize)

(***************************************************************************)
(* Properties of a reset during an upload, under SpecSession.              *)
(***************************************************************************)
\* the session is as reset left it: no recording, stopped, at time 0, without marks
SessionEmpty ==
    /\ ~ecgData.loaded
    /\ ~isAnimating
    /\ currentAnimationTime = 0
    /\ prqsPoints.R = <<>>

\* C28: when reset ran while an upload request was awaiting its response, the response
\* that arrives next, for a request started before the reset, does not load a recording:
\* the session stays empty.
C28_LateResponseDropped ==
    [][(/\ lastOp.op = "resetAnalyzer"
        /\ Len(uploads) > 0
        /\ SessionEmpty
        /\ lastOp'.op = "uploadResponseOk") => SessionEmpty']_vars

(***************************************************************************)
(* Properties of playback left to itself, under SpecLoop.                  *)
(***************************************************************************)
\* playback is on, on a recording with samples and with a positive step
PlayingOnSamples ==
    /\ isAnimating
    /\ Loaded
    /\ Len(ecgData.leads[1]) > 0
    /\ animationStep > 0

\* the last tick set the clock back to 0
Wrapped == isAnimating /\ lastOp.op = "animate" /\ currentAnimationTime = 0

\* C29: once playing on a recording with samples, with a positive step and every
\* requested tick run, no step ends the playing, and from every such state a tick
\* that sets currentTime back to 0 follows: the clock wraps again and again.
C29_LoopAtEnd ==
    /\ [][isAnimating => isAnimating']_vars
    /\ PlayingOnSamples ~> Wrapped

\* a tick took the clock past the end of a 1.5 s recording and set it back to 0
C29_Witness ==
    /\ isAnimating
    /\ lastOp.op = "animate"
    /\ lastOp.wasPlaying
    /\ MaxTime(This) > Tenths(5)
    /\ currentAnimationTime = 0

====
